---- MODULE Spec2Model ----
(***************************************************************************)
(* The tour image lifecycle of controllers/tourControllerAdvanced.js:      *)
(* multer upload filter, resizeTourImages (transcode and store),           *)
(* updateTour (read, update, clean up old files), safeUnlink.              *)
(*                                                                         *)
(* A filename (a JS string) is the sequence of its '/'-separated segments: *)
(* "a/b" is <<"a","b">>, "x.jpeg" is <<"x.jpeg">>, "" is <<>>.  A path of  *)
(* the image store is the normalised absolute sequence of segments.        *)
(***************************************************************************)
EXTENDS Integers, Sequences, FiniteSets, TLC

\* ------------------------------------------------------------------ bounds
MaxClock == 2        \* largest value Date.now() returns

\* ------------------------------------------------------ program constants
\* upload.fields([{ name: 'imageCover', maxCount: 1 }, { name: 'images', maxCount: 3 }])
CoverMaxCount == 1
ImagesMaxCount == 3

Reqs == {"r1", "r2"}
TourId == "1"

Range(s) == {s[i] : i \in DOMAIN s}

\* --------------------------------------------------------- path functions
TOURS_DIR == <<"cwd", "public", "img", "tours">>

RECURSIVE NormalizeFrom(_, _)
NormalizeFrom(segs, acc) ==
  IF segs = <<>> THEN acc
  ELSE LET s == Head(segs) IN
       IF s = "" \/ s = "." THEN NormalizeFrom(Tail(segs), acc)
       ELSE IF s = ".."
            THEN NormalizeFrom(Tail(segs),
                   IF acc = <<>> THEN acc ELSE SubSeq(acc, 1, Len(acc) - 1))
            ELSE NormalizeFrom(Tail(segs), Append(acc, s))

\* path.join(a, b): concatenate and normalise
PathJoin(a, b) == NormalizeFrom(a \o b, <<>>)

\* path.basename(name): the last non-empty segment, '' when there is none
RECURSIVE Basename(_)
Basename(name) ==
  IF name = <<>> THEN ""
  ELSE IF name[Len(name)] # "" THEN name[Len(name)]
       ELSE Basename(SubSeq(name, 1, Len(name) - 1))

safeJoinInTours(filename) == PathJoin(TOURS_DIR, <<Basename(filename)>>)

\* the file a reader of the record is served for a stored filename
ServedPath(filename) == PathJoin(TOURS_DIR, filename)

\* `tour-${id}-${now}-cover.jpeg` and `tour-${id}-${now}-${i + 1}.jpeg`
CoverName(id, now) ==
  <<"tour-" \o id \o "-" \o ToString(now) \o "-cover.jpeg">>
\* mutant: the gallery name leaves out the index
GalleryNameNoIndex(id, now, k) ==
  <<"tour-" \o id \o "-" \o ToString(now) \o ".jpeg">>

GalleryName(id, now, k) ==
  <<"tour-" \o id \o "-" \o ToString(now) \o "-" \o ToString(k) \o ".jpeg">>

\* ------------------------------------------------------------ JS objects
\* an object with optional fields is a function on the fields it owns
EmptyObj == <<>>
Has(obj, k) == k \in DOMAIN obj
\* mutant: { ...b, ...a }, the fields of the first object win
SpreadFirstWins(a, b) ==
  [k \in DOMAIN a \cup DOMAIN b |-> IF k \in DOMAIN a THEN a[k] ELSE b[k]]

\* { ...a, ...b }
Spread(a, b) ==
  [k \in DOMAIN a \cup DOMAIN b |-> IF k \in DOMAIN b THEN b[k] ELSE a[k]]
\* obj with obj[k] = v
Put(obj, k, v) ==
  [j \in DOMAIN obj \cup {k} |-> IF j = k THEN v ELSE obj[j]]

\* ------------------------------------------------------------- documents
NoDoc == [null |-> TRUE]
Doc(c, g) == [imageCover |-> c, images |-> g]
RefNames(doc) == IF doc = NoDoc THEN {} ELSE {doc.imageCover} \cup Range(doc.images)

InitCover == <<"tour-1-cover.jpg">>
InitG1 == <<"tour-1-1.jpg">>
InitG2 == <<"tour-1-2.jpg">>
Ghost == <<"ghost.jpeg">>

\* ---------------------------------------------------------------- inputs
\* a declared content type, split after its first five characters
JpegType == <<"image", "/jpeg">>
TextType == <<"text/", "plain">>
MimeTypes == {JpegType, TextType}

SeqsUpTo(S, n) == UNION {[1..k -> S] : k \in 0..n}

\* the files of one multipart request, per field, in the order they are sent:
\* up to one more than the field accepts
CoverParts == SeqsUpTo(MimeTypes, CoverMaxCount + 1)
GalleryParts == SeqsUpTo(MimeTypes, ImagesMaxCount + 1)

\* text fields the client can put in the request body
ClientBodies ==
  { EmptyObj,
    [imageCover |-> Ghost],
    [images |-> <<>>],
    [images |-> <<InitG1, Ghost>>],
    [images |-> <<InitCover>>] }

VARIABLES db, fs, clock, req

vars == <<db, fs, clock, req>>

NoError == [kind |-> "none"]

\* what a request presents to protect: no token, a token jwt.verify rejects,
\* or a valid token of a user who is gone, or who has a role and has or has
\* not changed the password since the token was issued
NoCred == [token |-> "none"]
NoUser == [null |-> TRUE]
\* User.findById(decoded.id) rejects
LookupRejected == [rejected |-> TRUE]
\* role: enum ['user', 'guide', 'lead-guide', 'admin']
Roles == {"user", "guide", "lead-guide", "admin"}
Credentials ==
  {NoCred, [token |-> "rejected"]}
  \cup {[token |-> "valid", user |-> u, changed |-> FALSE] :
          u \in {NoUser, LookupRejected}}
  \cup {[token |-> "valid", user |-> [role |-> role], changed |-> ch] :
          role \in Roles, ch \in BOOLEAN}

IdleReq ==
  [ pc |-> "idle", parts |-> EmptyObj, files |-> EmptyObj, body |-> EmptyObj,
    now |-> 0, newBody |-> EmptyObj, pend |-> {},
    before |-> NoDoc, updated |-> NoDoc, toDelete |-> <<>>, del |-> <<>>,
    outcome |-> NoError,
    wrote |-> {}, unlinked |-> {}, removed |-> {}, dbw |-> FALSE,
    body0 |-> EmptyObj, fs0 |-> {}, db0 |-> NoDoc,
    cred |-> NoCred, user |-> NoUser, ran |-> <<>>, outs |-> 0 ]

\* The record of the tour when the first request arrives: as seeded from the
\* dev data, or as left by an earlier upload made at time 1; every file it
\* names is in the image store.
InitDocs ==
  { Doc(InitCover, <<InitG1, InitG2>>),
    Doc(InitCover, <<>>),
    Doc(CoverName(TourId, 1), <<GalleryName(TourId, 1, 1)>>) }

Init ==
  /\ db \in InitDocs
  /\ fs = {ServedPath(n) : n \in RefNames(db)}
  /\ clock = 1
  /\ req = [r \in Reqs |-> IdleReq]

\* ---------------------------------------------------------------- outcomes
\* next(new AppError(message, statusCode))
AppError(statusCode) ==
  [kind |-> "error", name |-> "AppError", statusCode |-> statusCode]
\* a rejected promise of a library, forwarded by catchAsync: fn(...).catch(next)
Thrown(name) == [kind |-> "error", name |-> name]
\* res.status(200).json({ status: 'success', data: { data: updated } })
Json200(doc) == [kind |-> "json", statusCode |-> 200, data |-> doc]

\* the handler ends: one call of next(err) or of res.status(...).json(...)
Ended(q, outcome) ==
  [q EXCEPT !.pc = "done", !.outcome = outcome, !.outs = q.outs + 1]

\* the application's error-handling middleware: the status of the response
\* is the error's statusCode, and 500 for an error that carries none
ResponseStatus(outcome) ==
  IF "statusCode" \in DOMAIN outcome THEN outcome.statusCode ELSE 500

\* req.files as multer builds it: a field is present when a file came for it
Files(cover, images) ==
  [k \in (IF cover = <<>> THEN {} ELSE {"imageCover"})
        \cup (IF images = <<>> THEN {} ELSE {"images"})
     |-> IF k = "imageCover" THEN cover ELSE images]

\* A PATCH /:id request arrives.
Receive(r) ==
  /\ \A x \in Reqs : req[x].pc = "idle"
  /\ \E c \in CoverParts, g \in GalleryParts, b \in ClientBodies :
       req' = [req EXCEPT ![r] =
                 [IdleReq EXCEPT !.pc = "upload", !.parts = Files(c, g), !.body = b, !.body0 = b,
                                 !.fs0 = fs, !.db0 = db]]
  /\ UNCHANGED <<db, fs, clock>>

\* ------------------------------------------------------------------ multer
\* mutant: the filter lets every file through
multerFilterAcceptsAll(file) == file \in MimeTypes

multerFilter(file) == file[1] = "image"

FieldMaxCount(k) == IF k = "imageCover" THEN CoverMaxCount ELSE ImagesMaxCount

\* multer takes the files of a field in order: a file beyond maxCount aborts
\* with LIMIT_UNEXPECTED_FILE, a file within it is handed to multerFilter
RECURSIVE FirstError(_, _, _)
FirstError(files, maxCount, i) ==
  IF i > Len(files) THEN NoError
  ELSE IF i > maxCount THEN Thrown("MulterError")
  ELSE IF ~multerFilter(files[i]) THEN AppError(400)
  ELSE FirstError(files, maxCount, i + 1)

\* the errors the upload can abort with: the first one of either field,
\* whichever the client sends first
UploadErrors(parts) ==
  {FirstError(parts[k], FieldMaxCount(k), 1) : k \in DOMAIN parts} \ {NoError}

uploadTourImages(r) ==
  /\ req[r].pc = "upload"
  /\ LET q == req[r] IN
       IF UploadErrors(q.parts) = {}
       THEN req' = [req EXCEPT ![r] = [q EXCEPT !.pc = "resize", !.files = q.parts]]
       ELSE \E err \in UploadErrors(q.parts) : req' = [req EXCEPT ![r] = Ended(q, err)]
  /\ UNCHANGED <<db, fs, clock>>

\* -------------------------------------------------------- resizeTourImages
\* req.body = { ...req.body, ...newBody }; next() runs updateTour up to its
\* first await (the findById query)
Merged(q) == [q EXCEPT !.body = Spread(q.body, q.newBody), !.pc = "find"]

\* mutant: the gallery tasks are started but not awaited
GalleryStartedNotAwaited(q) ==
  IF Has(q.files, "images") /\ Len(q.files.images) > 0
  THEN Merged([q EXCEPT !.newBody = Put(q.newBody, "images", <<>>),
                        !.pend = 1..Len(q.files.images)])
  ELSE Merged(q)

\* step 2 of resizeTourImages: fan out one task per gallery file, or merge
GalleryStarted(q) ==
  IF Has(q.files, "images") /\ Len(q.files.images) > 0
  THEN [q EXCEPT !.newBody = Put(q.newBody, "images", <<>>),
                 !.pend = 1..Len(q.files.images),
                 !.pc = "gallery"]
  ELSE Merged(q)

\* line 96 to the first await; Date.now() returns the last value it returned
\* or a later one
resizeTourImages(r) ==
  /\ req[r].pc = "resize"
  /\ LET q == req[r] IN
       IF ~Has(q.files, "imageCover") /\ ~Has(q.files, "images")
       THEN /\ req' = [req EXCEPT ![r] = [q EXCEPT !.pc = "find"]]
            /\ clock' = clock
       ELSE \E now \in clock..MaxClock :
              LET q1 == [q EXCEPT !.now = now, !.newBody = EmptyObj] IN
              /\ clock' = now
              /\ req' = [req EXCEPT ![r] =
                   IF Has(q.files, "imageCover") /\ Len(q.files.imageCover) > 0
                   THEN [q1 EXCEPT !.pc = "cover"]
                   ELSE GalleryStarted(q1)]
  /\ UNCHANGED <<db, fs>>

\* sharp(...).toFile(path.join(TOURS_DIR, coverName)) resolves
CoverWritten(r) ==
  /\ req[r].pc = "cover"
  /\ LET q == req[r]
         coverName == CoverName(TourId, q.now)
         file == PathJoin(TOURS_DIR, coverName)
     IN /\ fs' = fs \cup {file}
        /\ req' = [req EXCEPT ![r] =
                     GalleryStarted([q EXCEPT
                       !.newBody = Put(q.newBody, "imageCover", coverName),
                       !.wrote = q.wrote \cup {file}])]
  /\ UNCHANGED <<db, clock>>

\* sharp rejects for the cover: catchAsync forwards the error
CoverFailed(r) ==
  /\ req[r].pc = "cover"
  /\ req' = [req EXCEPT ![r] = Ended(req[r], Thrown("SharpError"))]
  /\ UNCHANGED <<db, fs, clock>>

\* the task of gallery file k (index i = k - 1) resolves: file written, name
\* pushed; when it was the last one Promise.all resolves and the body is merged
GalleryTaskWritten(r, k) ==
  /\ k \in req[r].pend
  /\ LET q == req[r]
         filename == GalleryName(TourId, q.now, k)
         file == PathJoin(TOURS_DIR, filename)
         q1 == [q EXCEPT !.newBody = Put(q.newBody, "images",
                                        Append(q.newBody.images, filename)),
                         !.pend = q.pend \ {k},
                         !.wrote = q.wrote \cup {file}]
     IN /\ fs' = fs \cup {file}
        /\ req' = [req EXCEPT ![r] =
                     IF q.pc = "gallery" /\ q1.pend = {} THEN Merged(q1) ELSE q1]
  /\ UNCHANGED <<db, clock>>

\* mutant: the rejection of a gallery task is swallowed and the step goes on
GalleryTaskFailedIgnored(r, k) ==
  /\ k \in req[r].pend
  /\ LET q == req[r]
         q1 == [q EXCEPT !.pend = q.pend \ {k}]
     IN req' = [req EXCEPT ![r] =
                  IF q.pc = "gallery" /\ q1.pend = {} THEN Merged(q1) ELSE q1]
  /\ UNCHANGED <<db, fs, clock>>

\* the task of gallery file k rejects: Promise.all rejects at once and
\* catchAsync forwards the error, while the other tasks keep running
GalleryTaskFailed(r, k) ==
  /\ k \in req[r].pend
  /\ LET q == req[r]
         q1 == [q EXCEPT !.pend = q.pend \ {k}]
     IN req' = [req EXCEPT ![r] =
                  IF q.pc = "gallery" THEN Ended(q1, Thrown("SharpError")) ELSE q1]
  /\ UNCHANGED <<db, fs, clock>>

\* --------------------------------------------------------------- updateTour
\* Tour.findByIdAndUpdate(id, body, { new: true, runValidators: true }) on an
\* existing document: the fields the body owns are set
ApplyUpdate(doc, body) ==
  Doc(IF Has(body, "imageCover") THEN body.imageCover ELSE doc.imageCover,
      IF Has(body, "images") THEN body.images ELSE doc.images)

\* mutant: the before-cover is never marked
CoverToDeleteNever(body, before, updated) == <<>>

\* mutant: the before-cover is marked on every update
CoverToDeleteAlways(body, before, updated) ==
  IF before.imageCover # <<>> THEN <<safeJoinInTours(before.imageCover)>> ELSE <<>>

\* mutant: the cover of the updated document is marked
CoverToDeleteUpdated(body, before, updated) ==
  IF /\ Has(body, "imageCover")
     /\ before.imageCover # <<>>
     /\ before.imageCover # updated.imageCover
  THEN <<safeJoinInTours(updated.imageCover)>>
  ELSE <<>>

\* lines 222-226
CoverToDelete(body, before, updated) ==
  IF /\ Has(body, "imageCover")
     /\ before.imageCover # <<>>
     /\ before.imageCover # updated.imageCover
  THEN <<safeJoinInTours(before.imageCover)>>
  ELSE <<>>

\* mutant: every before-gallery name is marked
GalleryLoopAll(names, updated) ==
  [i \in 1..Len(names) |-> safeJoinInTours(names[i])]

\* lines 228-238
RECURSIVE GalleryLoop(_, _)
GalleryLoop(names, updated) ==
  IF names = <<>> THEN <<>>
  ELSE LET oldName == Head(names) IN
       (IF oldName # <<>> /\ oldName \notin Range(updated.images)
        THEN <<safeJoinInTours(oldName)>> ELSE <<>>)
       \o GalleryLoop(Tail(names), updated)

\* mutant: the old gallery array is deleted entirely
GalleryToDeleteWhole(body, before, updated) ==
  IF Has(body, "images") /\ Len(before.images) > 0
  THEN [i \in 1..Len(before.images) |-> safeJoinInTours(before.images[i])]
  ELSE <<>>

GalleryToDelete(body, before, updated) ==
  IF Has(body, "images") /\ Len(before.images) > 0
  THEN GalleryLoop(before.images, updated)
  ELSE <<>>

ToDelete(body, before, updated) ==
  CoverToDelete(body, before, updated) \o GalleryToDelete(body, before, updated)

\* safeUnlink up to its first await: an empty path is skipped at once
UnlinkStarted(fullPath) == IF fullPath = <<>> THEN "skipped" ELSE "access"

Settled(del) == \A i \in DOMAIN del : del[i] \in {"ok", "skipped", "failed"}

\* mutant: the deletions are started and the response is sent without the join
RespondedAtOnce(q) == Ended(q, Json200(q.updated))

\* mutant: the join resolves on the first failed task
RespondedOnFirstFailure(q) ==
  IF Settled(q.del) \/ \E i \in DOMAIN q.del : q.del[i] = "failed"
  THEN Ended(q, Json200(q.updated)) ELSE q

\* Promise.allSettled resolves when every task has settled; then the response
Responded(q) == IF Settled(q.del) THEN Ended(q, Json200(q.updated)) ELSE q

\* mutant: next(new AppError(..., 404)) without the return
FoundNoReturn(q, doc) ==
  IF doc = NoDoc
  THEN [q EXCEPT !.outcome = AppError(404), !.outs = q.outs + 1, !.pc = "update"]
  ELSE [q EXCEPT !.before = doc, !.pc = "update"]

\* mutant: the missing document is not checked for
FoundUnchecked(q, doc) == [q EXCEPT !.before = doc, !.pc = "update"]

\* lines 197-198: the snapshot read, or the 404 when there is no document
Found(q, doc) ==
  IF doc = NoDoc THEN Ended(q, AppError(404))
  ELSE [q EXCEPT !.before = doc, !.pc = "update"]

\* await Tour.findById(req.params.id).select('imageCover images') resolves
FindById(r) ==
  /\ req[r].pc = "find"
  /\ req' = [req EXCEPT ![r] = Found(req[r], db)]
  /\ UNCHANGED <<db, fs, clock>>

\* the findById query rejects (the connection drops): catchAsync forwards it
FindByIdRejected(r) ==
  /\ req[r].pc = "find"
  /\ req' = [req EXCEPT ![r] = Ended(req[r], Thrown("MongoError"))]
  /\ UNCHANGED <<db, fs, clock>>

\* mutant: the old cover was deleted before the write was tried
UpdateRejectedAfterDelete(r) ==
  /\ req[r].pc = "update"
  /\ LET fullPath == safeJoinInTours(req[r].before.imageCover) IN
       /\ fs' = fs \ {fullPath}
       /\ req' = [req EXCEPT ![r] =
                    Ended([req[r] EXCEPT !.removed = {fullPath} \cap fs],
                          Thrown("ValidationError"))]
  /\ UNCHANGED <<db, clock>>

\* the store rejects the write (a validator fails, the connection drops)
UpdateRejected(r) ==
  /\ req[r].pc = "update"
  /\ req' = [req EXCEPT ![r] = Ended(req[r], Thrown("ValidationError"))]
  /\ UNCHANGED <<db, fs, clock>>

\* mutant: the guard answers like the one after the read
NotUpdatedAs404(q) == Ended(q, AppError(404))

\* line 209: findByIdAndUpdate resolved with null
NotUpdated(q) == Ended(q, AppError(500))

\* await Tour.findByIdAndUpdate(...) resolves; lines 209-246 up to the await
FindByIdAndUpdate(r) ==
  /\ req[r].pc = "update"
  /\ LET q == req[r] IN
       IF db = NoDoc
       THEN /\ req' = [req EXCEPT ![r] = NotUpdated(q)]
            /\ db' = db
       ELSE LET updated == ApplyUpdate(db, q.body)
                toDelete == ToDelete(q.body, q.before, updated)
            IN /\ db' = updated
               /\ req' = [req EXCEPT ![r] =
                    Responded([q EXCEPT
                      !.updated = updated,
                      !.dbw = TRUE,
                      !.toDelete = toDelete,
                      !.del = [i \in DOMAIN toDelete |-> UnlinkStarted(toDelete[i])],
                      !.pc = "cleanup"])]
  /\ UNCHANGED <<fs, clock>>

\* ---------------------------------------------------------------- cleanup
IsDirectory(fullPath) ==
  Len(fullPath) <= Len(TOURS_DIR) /\ fullPath = SubSeq(TOURS_DIR, 1, Len(fullPath))

\* fileExists: fsp.access resolves or rejects; any rejection reads as absent
FileExists(r, i) ==
  /\ req[r].pc = "cleanup"
  /\ i \in DOMAIN req[r].del
  /\ req[r].del[i] = "access"
  /\ LET q == req[r]
         fullPath == q.toDelete[i]
     IN \E denied \in BOOLEAN :
          LET exists == (fullPath \in fs \/ IsDirectory(fullPath)) /\ ~denied IN
          req' = [req EXCEPT ![r] =
                    Responded([q EXCEPT !.del[i] = IF exists THEN "unlink"
                                                  ELSE "skipped"])]
  /\ UNCHANGED <<db, fs, clock>>

\* fsp.unlink resolves: the file is removed
Unlinked(r, i) ==
  /\ req[r].pc = "cleanup"
  /\ i \in DOMAIN req[r].del
  /\ req[r].del[i] = "unlink"
  /\ req[r].toDelete[i] \in fs
  /\ LET q == req[r]
         fullPath == q.toDelete[i]
     IN /\ fs' = fs \ {fullPath}
        /\ req' = [req EXCEPT ![r] =
                     Responded([q EXCEPT !.del[i] = "ok",
                                         !.unlinked = q.unlinked \cup {fullPath},
                                         !.removed = q.removed \cup {fullPath}])]
  /\ UNCHANGED <<db, clock>>

\* mutant: the rejection of unlink is not caught
UnlinkRejectedThrows(q, i, fullPath) ==
  Ended([q EXCEPT !.del[i] = "failed", !.unlinked = q.unlinked \cup {fullPath}],
        Thrown("UnlinkError"))

\* lines 72-76: the catch of safeUnlink logs and returns { ok: false }
UnlinkRejected(q, i, fullPath) ==
  Responded([q EXCEPT !.del[i] = "failed",
                      !.unlinked = q.unlinked \cup {fullPath}])

\* fsp.unlink rejects (no such file, a directory, no permission)
UnlinkFailed(r, i) ==
  /\ req[r].pc = "cleanup"
  /\ i \in DOMAIN req[r].del
  /\ req[r].del[i] = "unlink"
  /\ req' = [req EXCEPT ![r] = UnlinkRejected(req[r], i, req[r].toDelete[i])]
  /\ UNCHANGED <<db, fs, clock>>

\* ------------------------------------------------------------- environment
\* exports.deleteTour: another request removes the document
deleteTour ==
  /\ db # NoDoc
  /\ db' = NoDoc
  /\ UNCHANGED <<fs, clock, req>>

\* the client sends the payload of the request that has ended once more,
\* with no new files
Reissue ==
  /\ req["r1"].pc = "done"
  /\ req["r1"].pend = {}
  /\ req["r1"].parts = EmptyObj
  /\ req["r2"].pc = "idle"
  /\ req' = [req EXCEPT !["r2"] =
               [IdleReq EXCEPT !.pc = "upload", !.body = req["r1"].body0,
                               !.body0 = req["r1"].body0,
                               !.fs0 = fs, !.db0 = db]]
  /\ UNCHANGED <<db, fs, clock>>

\* the steps of updateTour
UpdateSteps ==
  \/ \E r \in Reqs : FindById(r)
  \/ \E r \in Reqs : FindByIdRejected(r)
  \/ \E r \in Reqs : UpdateRejected(r)
  \/ \E r \in Reqs : FindByIdAndUpdate(r)
  \/ \E r \in Reqs : \E i \in 1..(ImagesMaxCount + 1) : FileExists(r, i)
  \/ \E r \in Reqs : \E i \in 1..(ImagesMaxCount + 1) : Unlinked(r, i)
  \/ \E r \in Reqs : \E i \in 1..(ImagesMaxCount + 1) : UnlinkFailed(r, i)

\* a step of a request in progress
RequestSteps ==
  \/ \E r \in Reqs : uploadTourImages(r)
  \/ \E r \in Reqs : resizeTourImages(r)
  \/ \E r \in Reqs : CoverWritten(r)
  \/ \E r \in Reqs : CoverFailed(r)
  \/ \E r \in Reqs : \E k \in 1..ImagesMaxCount : GalleryTaskWritten(r, k)
  \/ \E r \in Reqs : \E k \in 1..ImagesMaxCount : GalleryTaskFailed(r, k)
  \/ UpdateSteps

\* a step of a request in progress, or of the environment
Steps == RequestSteps \/ deleteTour

\* Two clients send a PATCH for the same tour, each once, at any time; each
\* uploads at most one cover and one gallery image.
RaceParts == {Files(c, g) : c \in SeqsUpTo({JpegType}, 1), g \in SeqsUpTo({JpegType}, 1)}
RaceBodies == {EmptyObj, [images |-> <<>>], [imageCover |-> Ghost]}

ReceiveConcurrent(r) ==
  /\ req[r].pc = "idle"
  /\ r = "r2" => req["r1"].pc # "idle"
  /\ \E parts \in RaceParts, b \in RaceBodies :
       req' = [req EXCEPT ![r] =
                 [IdleReq EXCEPT !.pc = "upload", !.parts = parts, !.body = b,
                                 !.body0 = b, !.fs0 = fs, !.db0 = db]]
  /\ UNCHANGED <<db, fs, clock>>

Next == Receive("r1") \/ Steps

Spec == Init /\ [][Next]_vars

\* one update request, and the same payload sent again once it has ended
NextReissue == Next \/ Reissue

SpecReissue == Init /\ [][NextReissue]_vars

\* one update request, with every pending query and file operation of
\* updateTour settling in the end
SpecFair == Spec /\ WF_vars(UpdateSteps)

\* ------------------------------------------------------------ the router
\* router.route('/:id').patch(...): the handlers of PATCH /:id, in order
PatchRoute == <<"paramSanitize", "protect", "restrictTo", "updateTour">>
\* authController.restrictTo('admin', 'lead-guide')
PatchRoles == {"admin", "lead-guide"}

\* A PATCH /:id request enters the router: a JSON request with the client's
\* fields, or a multipart request with files.  The body parsers of the
\* application read JSON and urlencoded bodies only, so no field of a
\* multipart body reaches req.body and req.files is not set.
ReceivePatch(r) ==
  /\ \A x \in Reqs : req[x].pc = "idle"
  /\ \E cred \in Credentials, parts \in RaceParts, b \in ClientBodies :
       /\ parts # EmptyObj => b = EmptyObj
       /\ req' = [req EXCEPT ![r] =
                   [IdleReq EXCEPT !.pc = "route", !.parts = parts, !.body = b,
                                   !.body0 = b, !.fs0 = fs, !.db0 = db,
                                   !.cred = cred]]
  /\ UNCHANGED <<db, fs, clock>>

\* the handler the router runs next for request q
NextHandler(q) == PatchRoute[Len(q.ran) + 1]

\* handler name called next(): the router runs the following handler; the
\* controller's handlers run up to their first await
Passed(q, name) ==
  LET q1 == [q EXCEPT !.ran = Append(q.ran, name)]
      nxt == NextHandler(q1)
  IN IF nxt = "updateTour"
     THEN [q1 EXCEPT !.pc = "find", !.ran = Append(q1.ran, nxt)]
     ELSE IF nxt = "uploadTourImages"
          THEN [q1 EXCEPT !.pc = "upload", !.ran = Append(q1.ran, nxt)]
          ELSE q1

\* xssSanitize.paramSanitize(): cleans req.params and calls next()
paramSanitize(r) ==
  /\ req[r].pc = "route" /\ NextHandler(req[r]) = "paramSanitize"
  /\ req' = [req EXCEPT ![r] = Passed(req[r], "paramSanitize")]
  /\ UNCHANGED <<db, fs, clock>>

\* mutant: a user who changed the password keeps access with the old token
ProtectedKeepsOldToken(q) ==
  IF q.cred.token = "none" THEN Ended(q, AppError(401))
  ELSE IF q.cred.token = "rejected" THEN Ended(q, Thrown("JsonWebTokenError"))
  ELSE IF q.cred.user = LookupRejected THEN Ended(q, Thrown("MongoError"))
  ELSE IF q.cred.user = NoUser THEN Ended(q, AppError(401))
  ELSE Passed([q EXCEPT !.user = q.cred.user], "protect")

\* authController.protect, lines 83-123
Protected(q) ==
  IF q.cred.token = "none" THEN Ended(q, AppError(401))
  ELSE IF q.cred.token = "rejected" THEN Ended(q, Thrown("JsonWebTokenError"))
  ELSE IF q.cred.user = LookupRejected THEN Ended(q, Thrown("MongoError"))
  ELSE IF q.cred.user = NoUser THEN Ended(q, AppError(401))
  ELSE IF q.cred.changed THEN Ended(q, AppError(401))
  ELSE Passed([q EXCEPT !.user = q.cred.user], "protect")

protect(r) ==
  /\ req[r].pc = "route" /\ NextHandler(req[r]) = "protect"
  /\ req' = [req EXCEPT ![r] = Protected(req[r])]
  /\ UNCHANGED <<db, fs, clock>>

\* mutant: every authenticated user is let through
RestrictedToNobody(q, roles) == Passed(q, "restrictTo")

\* authController.restrictTo(...roles), lines 165-175
Restricted(q, roles) ==
  IF q.user.role \notin roles THEN Ended(q, AppError(403))
  ELSE Passed(q, "restrictTo")

restrictTo(r) ==
  /\ req[r].pc = "route" /\ NextHandler(req[r]) = "restrictTo"
  /\ req' = [req EXCEPT ![r] = Restricted(req[r], PatchRoles)]
  /\ UNCHANGED <<db, fs, clock>>

\* one PATCH /:id request through the router
NextRoute ==
  \/ ReceivePatch("r1")
  \/ \E r \in Reqs : paramSanitize(r)
  \/ \E r \in Reqs : protect(r)
  \/ \E r \in Reqs : restrictTo(r)
  \/ UpdateSteps
  \/ deleteTour

SpecRoute == Init /\ [][NextRoute]_vars

\* Records whose filenames were stored as the client sent them (createTour, or
\* an earlier update with the fields in its body): '..', '.', '/', a name with
\* a directory, a name that climbs out, a plain name and an empty gallery
\* entry.  The store holds the files these names are served from, where that
\* is a file.
StoredDocs ==
  { Doc(<<"..">>, << <<".">> >>),
    Doc(<<"sub", "x.jpeg">>, << <<>>, <<"..", "x.jpeg">>, <<"x.jpeg">> >>),
    Doc(<<"", "">>, << <<"sub", "..">> >>) }

InitStored ==
  /\ db \in StoredDocs
  /\ fs = {ServedPath(n) : n \in RefNames(db)} \ {p \in {ServedPath(n) : n \in RefNames(db)} : IsDirectory(p)}
  /\ clock = 1
  /\ req = [r \in Reqs |-> IdleReq]

\* one update request on a record with such names
SpecStored == InitStored /\ [][Next]_vars

\* two concurrent update requests on the same tour
InitRace == Init /\ db = Doc(CoverName(TourId, 1), <<GalleryName(TourId, 1, 1)>>)

NextRace == (\E r \in Reqs : ReceiveConcurrent(r)) \/ RequestSteps

SpecRace == InitRace /\ [][NextRace]_vars

\* ------------------------------------------------------------------ claims
Done(q) == q.pc = "done"
Ok200(q) == Done(q) /\ q.outcome.kind = "json"

\* the paths the files uploaded with request q are stored under
UploadPaths(q) ==
  (IF Has(q.files, "imageCover")
   THEN {ServedPath(CoverName(TourId, q.now))} ELSE {})
  \cup (IF Has(q.files, "images")
        THEN {ServedPath(GalleryName(TourId, q.now, k)) : k \in 1..Len(q.files.images)}
        ELSE {})

\* C1: in a request that uploads images, no step writes an image file once
\* the record update has been applied, the update is applied only when every
\* uploaded file has been written, and a file leaves the store (or a deletion
\* task is started or run) only in a request whose record update succeeded.
WriteUpdateDeleteOrder ==
  [][/\ \A r \in Reqs :
          /\ ~(req'[r].wrote \subseteq req[r].wrote) => ~req[r].dbw /\ ~req'[r].dbw
          /\ req'[r].dbw => UploadPaths(req'[r]) \subseteq req'[r].wrote
          /\ (req'[r].del # <<>> \/ req'[r].unlinked # {} \/ req'[r].removed # {})
               => req'[r].dbw /\ req'[r].updated # NoDoc
     /\ ~(fs \subseteq fs') =>
          \E r \in Reqs : req[r].dbw /\ fs \ fs' \subseteq req'[r].removed]_vars

WriteUpdateDeleteOrderWitness ==
  \E r \in Reqs :
    /\ Ok200(req[r])
    /\ Cardinality(req[r].wrote) >= 2
    /\ req[r].removed # {}

\* C2 (as claimed): every filename the record references names a file
\* present in the image store, in every state.
RecordFilesPresent ==
  \A n \in RefNames(db) : ServedPath(n) \in fs

\* C3: when the record update fails (the store rejects it, or it returns no
\* document), the request has started no deletion task and called no unlink,
\* every file present before the request is still there, and so are the
\* files the request wrote.
UpdateFailure(q) == q.outcome \in {Thrown("ValidationError"), AppError(500)}

FailedUpdateDeletesNothing ==
  \A r \in Reqs :
    UpdateFailure(req[r]) =>
      /\ req[r].toDelete = <<>> /\ req[r].del = <<>>
      /\ req[r].unlinked = {} /\ req[r].removed = {}
      /\ req[r].fs0 \subseteq fs
      /\ req[r].wrote \subseteq fs
      /\ UploadPaths(req[r]) \subseteq req[r].wrote

FailedUpdateDeletesNothingWitness ==
  \E r \in Reqs :
    /\ UpdateFailure(req[r])
    /\ req[r].wrote # {}
    /\ Has(req[r].body, "imageCover") /\ Has(req[r].body, "images")

\* the request uploaded a cover image and ended with the 200 response
CoverReplaced(q) == Ok200(q) /\ Has(q.files, "imageCover")

\* C4 (as claimed): after a successful update with a new cover image the
\* record's cover differs from the one before and the before-cover file is
\* absent from the image store, unless before-cover equals after-cover.
OldCoverAbsent ==
  \A r \in Reqs :
    CoverReplaced(req[r]) =>
      \/ req[r].before.imageCover = req[r].updated.imageCover
      \/ /\ req[r].updated.imageCover # req[r].before.imageCover
         /\ ServedPath(req[r].before.imageCover) \notin fs

\* C4 (amended): after a successful update with a new cover image the
\* record's cover is the name generated for the upload; unless it equals the
\* before-cover, the before-cover file was marked for deletion and its
\* deletion task has settled before the response, and the file is absent
\* from the store unless that task failed or skipped the file.
OldCoverAbsentUnlessFailed ==
  \A r \in Reqs :
    CoverReplaced(req[r]) =>
      /\ req[r].updated.imageCover = CoverName(TourId, req[r].now)
      /\ \/ req[r].before.imageCover = req[r].updated.imageCover
         \/ /\ req[r].toDelete # <<>>
            /\ req[r].toDelete[1] = ServedPath(req[r].before.imageCover)
            /\ req[r].del[1] \in {"ok", "skipped", "failed"}
            /\ \/ ServedPath(req[r].before.imageCover) \notin fs
               \/ req[r].del[1] \in {"skipped", "failed"}

OldCoverAbsentUnlessFailedWitness ==
  \E r \in Reqs :
    /\ CoverReplaced(req[r])
    /\ req[r].before.imageCover # req[r].updated.imageCover
    /\ req[r].del[1] = "ok"
    /\ ServedPath(req[r].before.imageCover) \in req[r].fs0 \ fs

CleanupNeverFailsRequest ==
  \A r \in Reqs :
    req[r].dbw =>
      /\ req[r].outcome.kind # "error"
      /\ req[r].pc \in {"cleanup", "done"}
      /\ req[r].pc = "cleanup" =>
           \E i \in DOMAIN req[r].del : req[r].del[i] \in {"access", "unlink"}
      /\ Done(req[r]) => req[r].outcome = Json200(req[r].updated)

CleanupNeverFailsRequestWitness ==
  \E r \in Reqs :
    /\ Ok200(req[r])
    /\ \E i \in DOMAIN req[r].del : req[r].del[i] = "failed"

\* C7: a deletion that fails changes no other deletion task and does not end
\* the request while another task is unsettled; every marked file gets its
\* own task, which is started with the others.
DeletionsIndependent ==
  [][\A r \in Reqs :
       /\ DOMAIN req'[r].del = DOMAIN req'[r].toDelete
       /\ \A i \in DOMAIN req[r].del :
            (req[r].del[i] # "failed" /\ req'[r].del = [req[r].del EXCEPT ![i] = "failed"])
              => /\ req'[r].toDelete = req[r].toDelete
                 /\ (\E j \in DOMAIN req[r].del :
                       j # i /\ req[r].del[j] \in {"access", "unlink"})
                      => req'[r].pc = "cleanup"
       /\ \A i \in DOMAIN req[r].del :
            (req[r].del[i] = "failed" /\ req[r].pc = "cleanup")
              => i \in DOMAIN req'[r].del /\ req'[r].del[i] = "failed"]_vars

DeletionsIndependentWitness ==
  \E r \in Reqs :
    /\ Ok200(req[r])
    /\ \E i, j \in DOMAIN req[r].del :
         /\ i < j
         /\ req[r].del[i] = "failed"
         /\ req[r].del[j] = "ok"

\* the request carries a file whose declared content type is no image type
HasNonImage(q) ==
  \E k \in DOMAIN q.parts : \E i \in DOMAIN q.parts[k] : q.parts[k][i][1] # "image"

OverMaxCount(q) ==
  \/ Has(q.parts, "imageCover") /\ Len(q.parts.imageCover) > CoverMaxCount
  \/ Has(q.parts, "images") /\ Len(q.parts.images) > ImagesMaxCount

\* the request has transcoded nothing, written nothing, and has neither read
\* nor updated the record
NothingProcessed(q) ==
  /\ q.pc \in {"upload", "done"}
  /\ q.files = EmptyObj /\ q.newBody = EmptyObj /\ q.pend = {}
  /\ q.wrote = {} /\ q.before = NoDoc /\ ~q.dbw
  /\ q.toDelete = <<>> /\ q.removed = {}

\* C8 (as claimed): a request with a non-image file is rejected with the 400
\* error, and nothing is transcoded, written or updated for it.
NonImageRejected400 ==
  \A r \in Reqs :
    HasNonImage(req[r]) =>
      /\ NothingProcessed(req[r])
      /\ fs = req[r].fs0
      /\ Done(req[r]) => req[r].outcome = AppError(400)

\* C8 (amended): a request with a non-image file is rejected by the upload
\* step and nothing is transcoded, written or updated for it; the error is
\* the 400 error, or multer's limit error when a field carries more files
\* than its maxCount and the surplus file comes before the non-image one.
NonImageRejected ==
  \A r \in Reqs :
    HasNonImage(req[r]) =>
      /\ NothingProcessed(req[r])
      /\ fs = req[r].fs0
      /\ Done(req[r]) =>
           /\ req[r].outcome \in {AppError(400), Thrown("MulterError")}
           /\ ~OverMaxCount(req[r]) => req[r].outcome = AppError(400)

NonImageRejectedWitness ==
  \E r \in Reqs :
    /\ HasNonImage(req[r])
    /\ Has(req[r].parts, "imageCover") /\ Has(req[r].parts, "images")
    /\ req[r].parts.imageCover[1][1] = "image"
    /\ req[r].outcome = AppError(400)

\* C9: an update whose payload has neither a cover nor a gallery field marks
\* nothing for deletion, writes and removes no file, and leaves the record's
\* cover and gallery as they were; so does the same payload sent again.
NoImageFields(q) == ~Has(q.body, "imageCover") /\ ~Has(q.body, "images")

NoFieldsNoEffect ==
  \A r \in Reqs :
    (req[r].dbw /\ NoImageFields(req[r])) =>
      /\ req[r].toDelete = <<>> /\ req[r].del = <<>>
      /\ req[r].unlinked = {} /\ req[r].removed = {} /\ req[r].wrote = {}
      /\ fs = req[r].fs0
      /\ req[r].updated = req[r].before
      /\ req[r].before = req[r].db0
      /\ db \in {req[r].db0, NoDoc}
      /\ Ok200(req[r])

NoFieldsNoEffectWitness ==
  /\ Ok200(req["r1"]) /\ NoImageFields(req["r1"])
  /\ Ok200(req["r2"]) /\ NoImageFields(req["r2"])
  /\ req["r2"].body = req["r1"].body
  /\ db = req["r1"].db0
  /\ fs = req["r1"].fs0

\* C10 (as claimed): a request for a record that does not exist ends with
\* the 404 error, has not written the record, has deleted no file and has
\* added no file to the image store.
NotFoundNoSideEffects ==
  \A r \in Reqs :
    /\ req[r].pc = "update" => req[r].before # NoDoc
    /\ req[r].outcome = AppError(404) =>
         /\ ~req[r].dbw /\ req[r].toDelete = <<>> /\ req[r].removed = {}
         /\ fs = req[r].fs0

\* C10 (amended): a request for a record that does not exist ends with the
\* 404 error and never reaches the update; it has not written the record and
\* has deleted no file, but every file uploaded with it has been written to
\* the image store and stays there, referenced by no record.
NotFoundLeavesUploads ==
  \A r \in Reqs :
    /\ req[r].pc = "update" => req[r].before # NoDoc
    /\ req[r].outcome = AppError(404) =>
         /\ Done(req[r]) /\ db = NoDoc /\ req[r].before = NoDoc
         /\ ~req[r].dbw /\ req[r].toDelete = <<>> /\ req[r].del = <<>>
         /\ req[r].unlinked = {} /\ req[r].removed = {}
         /\ req[r].wrote = UploadPaths(req[r])
         /\ fs = req[r].fs0 \cup req[r].wrote

NotFoundLeavesUploadsWitness ==
  \E r \in Reqs :
    /\ req[r].outcome = AppError(404)
    /\ req[r].wrote \ req[r].fs0 # {}

\* the request was aborted by a failed transcode: it ended with the error,
\* the record was neither read nor written by it, and the payload is the
\* client's, with no generated name attached
TranscodeAborted(q) ==
  /\ Done(q) /\ q.outcome = Thrown("SharpError")
  /\ q.before = NoDoc /\ q.updated = NoDoc /\ ~q.dbw
  /\ q.body = q.body0
  /\ q.toDelete = <<>>

\* C11: when the encoding or the write of an uploaded file fails (the cover,
\* or any gallery image while the step waits for the gallery), the request
\* ends at that step with the error, before the record is read or updated,
\* and no generated filename is in the update payload; it stays so.
TranscodeFailsAsWhole ==
  [][\A r \in Reqs :
       LET q == req[r]
           p == req'[r]
       IN /\ (q.pc = "cover" /\ p.pc # "cover" /\ p.wrote = q.wrote)
               => TranscodeAborted(p)
          /\ (q.pc = "gallery" /\ p.pend # q.pend /\ p.wrote = q.wrote)
               => TranscodeAborted(p)
          /\ p.outcome = Thrown("SharpError") => TranscodeAborted(p)]_vars

TranscodeFailsAsWholeWitness ==
  \E r \in Reqs :
    /\ TranscodeAborted(req[r])
    /\ Has(req[r].newBody, "imageCover")
    /\ Has(req[r].newBody, "images") /\ Len(req[r].newBody.images) >= 1
    /\ req[r].pend = {}
    /\ Cardinality(req[r].wrote) >= 2

\* C12 (as claimed): once the transcode step has handed on the payload of a
\* request with gallery uploads, the payload's gallery array is in upload
\* order: its k-th element is the name with index k.
GalleryInUploadOrder ==
  \A r \in Reqs :
    (Has(req[r].files, "images") /\ req[r].pc \in {"find", "update", "cleanup"}) =>
      req[r].body.images =
        [k \in 1..Len(req[r].files.images) |-> GalleryName(TourId, req[r].now, k)]

\* the request ended in the update step without the record being written
EndedInUpdate(q) == Done(q) /\ q.before # NoDoc /\ ~q.dbw

NoFilesUploaded(q) == q.pc # "idle" /\ q.parts = EmptyObj

\* C14 (as claimed): in a request that uploads no files the payload handed to
\* the update step is the client's fields unchanged and has neither the cover
\* field nor the gallery field, and the update marks no image for deletion
\* and leaves the record's cover and gallery as they were.
NoFilesPayloadUntouched ==
  \A r \in Reqs :
    (NoFilesUploaded(req[r]) /\ req[r].pc \in {"find", "update", "cleanup", "done"}) =>
      /\ req[r].body = req[r].body0
      /\ ~Has(req[r].body, "imageCover") /\ ~Has(req[r].body, "images")
      /\ req[r].dbw => /\ req[r].toDelete = <<>>
                       /\ req[r].updated = req[r].before

\* the names the transcode step of request q generated and stored files under
GeneratedNames(q) ==
  (IF Has(q.files, "imageCover") THEN {CoverName(TourId, q.now)} ELSE {})
  \cup (IF Has(q.files, "images")
        THEN {GalleryName(TourId, q.now, k) : k \in 1..Len(q.files.images)}
        ELSE {})

\* C15 (as claimed): every cover or gallery filename an update writes into
\* the record was generated by the transcode step of that request; a name the
\* client put in the request body is never referenced by the record.
RecordNamesGenerated ==
  \A r \in Reqs :
    req[r].dbw =>
      /\ Has(req[r].body, "imageCover") =>
           req[r].updated.imageCover \in GeneratedNames(req[r])
      /\ Has(req[r].body, "images") =>
           Range(req[r].updated.images) \subseteq GeneratedNames(req[r])
      /\ RefNames(req[r].updated) \subseteq
           RefNames(req[r].before) \cup GeneratedNames(req[r])

\* the paths under which the files named by a record are served
ReferencedPaths(doc) == {ServedPath(n) : n \in RefNames(doc)}

\* C16 (as claimed): a file leaves the image store only in a step of a
\* request's cleanup that marked it, and at that moment the record references
\* it neither as its cover nor in its gallery.
DeletedFilesUnreferenced ==
  [][\A p \in fs \ fs' :
       /\ \E r \in Reqs : req[r].pc = "cleanup" /\ p \in Range(req[r].toDelete)
       /\ p \notin ReferencedPaths(db)]_vars

\* the files request q marks, from its own snapshot and its own update result
SnapshotMarks(q) ==
  (IF Has(q.body, "imageCover") /\ q.before.imageCover # q.updated.imageCover
   THEN {safeJoinInTours(q.before.imageCover)} ELSE {})
  \cup (IF Has(q.body, "images")
        THEN {safeJoinInTours(n) : n \in Range(q.before.images) \ Range(q.updated.images)}
        ELSE {})

\* both requests read the same before-snapshot and each has deleted a file
\* the other one wrote
DeletedEachOthersFiles ==
  /\ req["r1"].before # NoDoc
  /\ req["r1"].before = req["r2"].before
  /\ req["r1"].removed \cap req["r2"].wrote # {}
  /\ req["r2"].removed \cap req["r1"].wrote # {}

\* C17: with two concurrent updates of one tour nothing keeps the second
\* read from returning the snapshot the first one read; each request marks
\* files from its own snapshot and its own update result alone, whatever the
\* other request has written or the record is by then, and removes only
\* files it marked; a file of the other request that it removes is one the
\* shared snapshot names.  The interleaving in which each request deletes a
\* file the other wrote is the witness.
RaceDeletesBySnapshot ==
  \A r \in Reqs :
    req[r].dbw =>
      /\ Range(req[r].toDelete) = SnapshotMarks(req[r])
      /\ req[r].removed \subseteq Range(req[r].toDelete)
      /\ \A s \in Reqs \ {r} :
           req[s].before = req[r].before =>
             req[r].removed \cap req[s].wrote
               \subseteq {safeJoinInTours(n) : n \in RefNames(req[r].before)}

RaceDeletesBySnapshotWitness ==
  /\ DeletedEachOthersFiles
  /\ Ok200(req["r1"]) /\ Ok200(req["r2"])

\* a path strictly inside the tour image directory
InsideToursDir(fullPath) ==
  /\ Len(fullPath) > Len(TOURS_DIR)
  /\ SubSeq(fullPath, 1, Len(TOURS_DIR)) = TOURS_DIR

\* C18 (as claimed): whatever filenames the record holds, every path the
\* cleanup resolves and hands to deletion is strictly inside the tour image
\* directory.
CleanupPathsInsideToursDir ==
  \A r \in Reqs : \A i \in DOMAIN req[r].toDelete :
    InsideToursDir(req[r].toDelete[i])

\* the names request q has generated so far, in the order it recorded them
NewCover(q) == IF Has(q.newBody, "imageCover") THEN <<q.newBody.imageCover>> ELSE <<>>
NewImages(q) == IF Has(q.newBody, "images") THEN q.newBody.images ELSE <<>>
NewNames(q) == NewCover(q) \o NewImages(q)

\* the names of the form tour-<id>-<t>-cover.jpeg and tour-<id>-<t>-<k>.jpeg
NamesAt(t) ==
  {<<"tour-" \o TourId \o "-" \o ToString(t) \o "-cover.jpeg">>}
  \cup {<<"tour-" \o TourId \o "-" \o ToString(t) \o "-" \o ToString(k) \o ".jpeg">> :
          k \in 1..ImagesMaxCount}

\* C19: the names one request generates (the cover name and every gallery
\* name) are pairwise distinct, so are the files written under them, and all
\* of them carry the one timestamp the request captured.
NamesUniqueOneTimestamp ==
  \A r \in Reqs :
    LET q == req[r]
        names == NewNames(q)
    IN /\ \A i, j \in DOMAIN names : i # j => names[i] # names[j]
       /\ Cardinality(q.wrote) = Len(names)
       /\ \A i \in DOMAIN names : names[i] \in NamesAt(q.now)
       /\ q.wrote = {PathJoin(TOURS_DIR, names[i]) : i \in DOMAIN names}

NamesUniqueOneTimestampWitness ==
  \E r \in Reqs :
    /\ Ok200(req[r])
    /\ Len(NewNames(req[r])) = 1 + ImagesMaxCount
    /\ req[r].now = MaxClock

\* C20: when the 200 response of an update is sent, every deletion task of
\* the request has settled (file removed, skipped, or failed), one task per
\* marked file, and no deletion of the request runs after the response.
ResponseAfterCleanup ==
  [][\A r \in Reqs :
       Ok200(req'[r]) =>
         /\ DOMAIN req'[r].del = DOMAIN req'[r].toDelete
         /\ \A i \in DOMAIN req'[r].del : req'[r].del[i] \in {"ok", "skipped", "failed"}
         /\ Ok200(req[r]) => /\ req'[r].del = req[r].del
                             /\ req'[r].unlinked = req[r].unlinked
                             /\ req'[r].removed = req[r].removed]_vars

ResponseAfterCleanupWitness ==
  \E r \in Reqs :
    /\ Ok200(req[r])
    /\ {"ok", "skipped", "failed"} \subseteq Range(req[r].del)

\* C21 (as claimed): when the router runs updateTour for a PATCH request, it
\* has run uploadTourImages and then resizeTourImages before, in this order;
\* updateTour never works on a multipart request that the two image steps
\* have not handled.
UpdateAfterImageSteps ==
  \A r \in Reqs :
    "updateTour" \in Range(req[r].ran) =>
      \E i, j, k \in DOMAIN req[r].ran :
        /\ i < j /\ j < k
        /\ req[r].ran[i] = "uploadTourImages"
        /\ req[r].ran[j] = "resizeTourImages"
        /\ req[r].ran[k] = "updateTour"

\* C22 (as claimed): a deletion task whose file is not in the image store
\* never settles as failed, also when the file was there at the existence
\* check and is gone at the unlink.
MissingFileIsSuccess ==
  [][\A r \in Reqs : \A i \in DOMAIN req[r].del :
       (/\ req[r].toDelete[i] \notin fs
        /\ ~IsDirectory(req[r].toDelete[i])
        /\ req[r].del[i] # "failed"
        /\ i \in DOMAIN req'[r].del)
         => req'[r].del[i] # "failed"]_vars

\* the request uploaded gallery images and its record update succeeded
GalleryUploaded(q) == q.dbw /\ Has(q.files, "images")

\* the gallery names generated for request q, one per uploaded file
GeneratedGallery(q) ==
  {GalleryName(TourId, q.now, k) : k \in 1..Len(q.files.images)}

\* C23 (as claimed): after a successful update with gallery uploads the
\* record's gallery consists of exactly the names generated for the uploads,
\* one per file, and contains none of the previous gallery entries.
GalleryReplacedNoneKept ==
  \A r \in Reqs :
    GalleryUploaded(req[r]) =>
      /\ Range(req[r].updated.images) = GeneratedGallery(req[r])
      /\ Len(req[r].updated.images) = Len(req[r].files.images)
      /\ Range(req[r].updated.images) \cap Range(req[r].before.images) = {}

\* C23 (amended): after a successful update with gallery uploads the
\* record's gallery consists of exactly the names generated for the uploads,
\* one per file, whatever gallery the client's body or the record held; a
\* previous entry is in it only when the request generated that name again.
GalleryReplacedAsUnit ==
  \A r \in Reqs :
    GalleryUploaded(req[r]) =>
      /\ Range(req[r].updated.images) = GeneratedGallery(req[r])
      /\ Len(req[r].updated.images) = Len(req[r].files.images)
      /\ \A n \in Range(req[r].before.images) \ GeneratedGallery(req[r]) :
           n \notin Range(req[r].updated.images)

GalleryReplacedAsUnitWitness ==
  \E r \in Reqs :
    /\ Ok200(req[r]) /\ GalleryUploaded(req[r])
    /\ Len(req[r].files.images) = ImagesMaxCount
    /\ Has(req[r].body0, "images") /\ req[r].body0.images # <<>>
    /\ Len(req[r].before.images) = 2
    /\ db = req[r].updated

\* C24 (as claimed): the files a request removes are files its own
\* before-snapshot names; with only a cover field in the payload it removes no
\* file of the before-gallery, with only a gallery field it does not remove
\* the before-cover's file, and it removes no file it has just written.
DeletesOnlyOwnSnapshot ==
  \A r \in Reqs :
    req[r].dbw =>
      LET q == req[r]
          galleryPaths == {ServedPath(n) : n \in Range(q.before.images)}
      IN /\ q.removed \subseteq ReferencedPaths(q.before)
         /\ (Has(q.body, "imageCover") /\ ~Has(q.body, "images"))
              => q.removed \cap galleryPaths = {}
         /\ (Has(q.body, "images") /\ ~Has(q.body, "imageCover"))
              => ServedPath(q.before.imageCover) \notin q.removed
         /\ q.removed \cap q.wrote = {}

\* the request is inside updateTour
InUpdateTour(q) == q.pc \in {"find", "update", "cleanup"}

\* the outcomes updateTour can end with
UpdateTourOutcomes(q) ==
  {Json200(q.updated), AppError(404), AppError(500),
   Thrown("MongoError"), Thrown("ValidationError")}

\* C25: an invocation of updateTour that has not ended has produced no
\* outcome; it ends with exactly one: the 200 response with the updated
\* record, or one error forwarded to the error handler (404, 500, or the
\* store's own error); after that nothing more is produced for the request;
\* and every invocation ends.
ExactlyOneOutcome ==
  /\ [][\A r \in Reqs :
          /\ InUpdateTour(req'[r]) => req'[r].outs = 0 /\ req'[r].outcome = NoError
          /\ InUpdateTour(req[r]) =>
               \/ InUpdateTour(req'[r])
               \/ /\ Done(req'[r]) /\ req'[r].outs = 1
                  /\ req'[r].outcome \in UpdateTourOutcomes(req'[r])
                  /\ req'[r].outcome.kind = "json" <=> req'[r].dbw
          /\ Done(req[r]) => /\ Done(req'[r])
                             /\ req'[r].outcome = req[r].outcome
                             /\ req'[r].outs = 1]_vars
  /\ \A r \in Reqs : InUpdateTour(req[r]) ~> Done(req[r])

ExactlyOneOutcomeWitness ==
  \E r \in Reqs :
    /\ Ok200(req[r]) /\ req[r].outs = 1
    /\ req[r].toDelete # <<>>
    /\ db = NoDoc

\* two concurrent requests on a record whose names no request can generate
InitFresh ==
  /\ db = Doc(InitCover, <<InitG1>>)
  /\ fs = {ServedPath(n) : n \in RefNames(db)}
  /\ clock = 1
  /\ req = [r \in Reqs |-> IdleReq]

SpecFresh == InitFresh /\ [][NextRace]_vars

\* no client has put an image field in the body, and the names the requests
\* generate differ from each other's and from the names of the initial record
FreshNamesOnly ==
  /\ \A r \in Reqs : NoImageFields([body |-> req[r].body0])
  /\ \A r \in Reqs : GeneratedNames(req[r]) \cap RefNames(req["r1"].db0) = {}
  /\ GeneratedNames(req["r1"]) \cap GeneratedNames(req["r2"]) = {}

\* the files in the store that the record does not reference
Orphans == fs \ ReferencedPaths(db)

\* C26: with two concurrent updates of one tour, no image field from a client
\* and generated names that differ between the requests and from the initial
\* ones, no file a request has removed is referenced by the record then or
\* later, and every file the record references is in the store: the race
\* leaves unreferenced files behind, nothing else.
RaceOnlyOrphans ==
  FreshNamesOnly =>
    /\ \A r \in Reqs : req[r].removed \cap ReferencedPaths(db) = {}
    /\ ReferencedPaths(db) \subseteq fs

RaceOnlyOrphansWitness ==
  /\ FreshNamesOnly
  /\ Ok200(req["r1"]) /\ Ok200(req["r2"])
  /\ req["r1"].before = req["r2"].before
  /\ Has(req["r1"].files, "imageCover") /\ Has(req["r2"].files, "imageCover")
  /\ req["r1"].removed # {}
  /\ Orphans \cap (req["r1"].wrote \cup req["r2"].wrote) # {}

\* the request has been handed to updateTour
ReachedUpdate(q) == "updateTour" \in Range(q.ran)

\* protect has let the request through and its user has a role of the route
Authorized(q) ==
  /\ q.cred.token = "valid"
  /\ q.cred.user \notin {NoUser, LookupRejected}
  /\ ~q.cred.changed
  /\ q.user = q.cred.user
  /\ q.user.role \in PatchRoles

\* the request has neither read nor written the record, nor written or
\* removed a file
StoresUntouched(q) ==
  /\ q.before = NoDoc /\ q.updated = NoDoc /\ ~q.dbw
  /\ q.wrote = {} /\ q.unlinked = {} /\ q.removed = {}
  /\ q.pc # "idle" => fs = q.fs0

\* how a request that is not let through ends, by its credentials
RefusedWith(q) ==
  IF q.cred.token = "none" THEN AppError(401)
  ELSE IF q.cred.token = "rejected" THEN Thrown("JsonWebTokenError")
  ELSE IF q.cred.user = LookupRejected THEN Thrown("MongoError")
  ELSE IF q.cred.user = NoUser \/ q.cred.changed THEN AppError(401)
  ELSE AppError(403)

\* C27 as stated: updateTour is reached only by an authenticated admin or
\* lead-guide, and every other PATCH request ends with a 401 or a 403 error
\* with the stores untouched.
RefusedWith401Or403 ==
  \A r \in Reqs :
    /\ ReachedUpdate(req[r]) => Authorized(req[r])
    /\ ~ReachedUpdate(req[r]) => StoresUntouched(req[r])
    /\ (Done(req[r]) /\ ~ReachedUpdate(req[r])) =>
         req[r].outcome \in {AppError(401), AppError(403)}

\* C27 (amended): updateTour is reached only by an authenticated admin or
\* lead-guide; every other PATCH request ends, with the stores untouched, with
\* a 401 error (no token, user gone, password changed), a 403 error (role not
\* allowed), or the error that the token verification or the user lookup
\* threw, which carries no status code.
RefusedBeforeStores ==
  \A r \in Reqs :
    /\ ReachedUpdate(req[r]) => Authorized(req[r])
    /\ ~ReachedUpdate(req[r]) => StoresUntouched(req[r])
    /\ (Done(req[r]) /\ ~ReachedUpdate(req[r])) =>
         /\ ~Authorized(req[r])
         /\ req[r].outcome = RefusedWith(req[r])
         /\ req[r].outs = 1
    /\ (Authorized(req[r]) /\ Len(req[r].ran) >= 3) => ReachedUpdate(req[r])

RefusedBeforeStoresWitness ==
  \E r \in Reqs :
    /\ Done(req[r]) /\ ~ReachedUpdate(req[r])
    /\ req[r].cred.token = "rejected"
    /\ req[r].outcome = Thrown("JsonWebTokenError")
    /\ req[r].parts # EmptyObj

====
